---------------------------- MODULE Spec2Model ----------------------------
(***************************************************************************)
(* A model of crovia-wedge: the evidence check (check.py, check_v2.py),   *)
(* the signed observation pointer (signed_pointer.py: generate, verify,   *)
(* save) and the verdict decision.                                         *)
(*                                                                         *)
(* Python values are modelled as follows.  A str that the code slices or  *)
(* formats character by character (the ISO timestamp, the hex digest, the *)
(* pointer id) is a sequence of one-character strings; every other str is *)
(* a TLA+ string.  None is the string None below.  A list is a sequence.  *)
(***************************************************************************)
EXTENDS Integers, Sequences, FiniteSets, TLC

VARIABLES
    signer,        \* SignedPointerGenerator._signer (None-signer or a signer object)
    pc,            \* position of the pointer life cycle
    pointer,       \* the SignedPointer object in hand (a mutable dataclass)
    genInput,      \* the arguments and clock of the last generate call
    genError,      \* the exception generate ended in, or None
    tampered,      \* the field of pointer that was reassigned after generate, or None
    lastVerify,    \* the last verify call: its arguments and its outcome
    script,        \* the check that runs: "check.py" or "check_v2.py"
    fs,            \* the repository tree under ROOT that the check scans
    run,           \* the check run: its position and its local variables
    config,        \* the CROVIA_* environment variables the script reads at import
    verdictStore,  \* .crovia/verdicts: verdict_latest.json and verdict_index.jsonl
    files,         \* the output directory: for each path, the file there
    writers,       \* the processes that call save, each with its position
    firstSaved     \* for each path, what the first completed save wrote there

pointerVars == <<signer, pc, pointer, genInput, genError, tampered, lastVerify>>
checkVars == <<script, fs, run, config, verdictStore>>
storeVars == <<files, writers, firstSaved>>
vars == <<pointerVars, checkVars, storeVars>>

(***************************************************************************)
(* Bounds of the model.                                                    *)
(***************************************************************************)
MaxEvidence == 2        \* longest evidence_found list passed to generate
MaxOmissions == 1       \* largest critical_omissions passed to generate
MaxReceiptDirs == 2     \* most directories under ROOT that hold a receipts*.ndjson
MaxGapLines == 2        \* most lines of gaps/gap_index.jsonl
MaxSaves == 2           \* most save calls of one process
MaxFailures == 1        \* most save calls that end in a failed write

(***************************************************************************)
(* Program constants.                                                      *)
(***************************************************************************)
IdHashChars == 12       \* observation_hash[:12]
DigestChars == 64       \* length of hashlib.sha256(...).hexdigest()
SeverityThreshold == 8  \* o.get("severity", 0) >= 0.8, in tenths

None == "<None>"

(***************************************************************************)
(* Python str helpers.                                                     *)
(***************************************************************************)
DigitChar == <<"0", "1", "2", "3", "4", "5", "6", "7", "8", "9">>
HexChar == <<"0", "1", "2", "3", "4", "5", "6", "7", "8", "9",
             "a", "b", "c", "d", "e", "f">>
HexCharUpper == <<"0", "1", "2", "3", "4", "5", "6", "7", "8", "9",
                  "A", "B", "C", "D", "E", "F">>

RECURSIVE Pow(_, _)
Pow(b, e) == IF e = 0 THEN 1 ELSE b * Pow(b, e - 1)

\* "%0<width>d" % n, as characters
ZeroPad(n, width) == [k \in 1..width |-> DigitChar[((n \div Pow(10, width - k)) % 10) + 1]]

\* "".join(chars)
RECURSIVE Join(_)
Join(chars) == IF chars = <<>> THEN "" ELSE Head(chars) \o Join(Tail(chars))

\* str.upper() of one character of a hex digest
UpperChar(c) ==
    IF \E k \in 1..16 : HexChar[k] = c
    THEN HexCharUpper[CHOOSE k \in 1..16 : HexChar[k] = c]
    ELSE c

\* s.upper()
Upper(chars) == [k \in 1..Len(chars) |-> UpperChar(chars[k])]

\* s[:n]
Prefix(chars, n) == SubSeq(chars, 1, IF n < Len(chars) THEN n ELSE Len(chars))

\* Python truthiness of an Optional[str]
Truthy(s) == s # None /\ s # ""

\* a or b
OrElse(a, b) == IF Truthy(a) THEN a ELSE b

(***************************************************************************)
(* datetime: the clock values datetime.now(timezone.utc) returns here.     *)
(***************************************************************************)
Clock == {
    [year |-> 2024, month |-> 3, day |-> 15, hour |-> 10, minute |-> 20,
     second |-> 30, microsecond |-> 123],
    [year |-> 2025, month |-> 12, day |-> 1, hour |-> 23, minute |-> 59,
     second |-> 59, microsecond |-> 0] }

\* datetime.isoformat() of an aware UTC datetime: YYYY-MM-DDTHH:MM:SS[.ffffff]+00:00
isoformat(now) ==
    ZeroPad(now.year, 4) \o <<"-">> \o ZeroPad(now.month, 2) \o <<"-">>
        \o ZeroPad(now.day, 2) \o <<"T">> \o ZeroPad(now.hour, 2) \o <<":">>
        \o ZeroPad(now.minute, 2) \o <<":">> \o ZeroPad(now.second, 2)
        \o (IF now.microsecond = 0 THEN <<>>
            ELSE <<".">> \o ZeroPad(now.microsecond, 6))
        \o <<"+", "0", "0", ":", "0", "0">>

\* now.strftime('%Y%m%d')
strftime_Ymd(now) ==
    ZeroPad(now.year, 4) \o ZeroPad(now.month, 2) \o ZeroPad(now.day, 2)


(***************************************************************************)
(* Value domains: the values the fields of an observation take here, in a  *)
(* fixed order (the order is used by the digest below only).               *)
(***************************************************************************)
RepositoryValues == <<"unknown/unknown", "test/repo", "org/repo">>
CommitValues == <<None, "abc123", "9f8e7d6">>
BranchValues == <<None, "dev", "main">>
StatusValues == <<"GREEN", "RED">>
ReasonValues == <<"evidence_recorded", "evidence_absent", "evidence_compromised",
                  "cfic_certified">>

\* the artifact labels check_evidence reports, in Python's str order (code points)
LabelOrder == <<"EVIDENCE.json", "[CFIC] .crovia/cfic_certificate.json",
                "[CFIC] CFIC.json", "cep_capsule.v1.json", "crovia_manifest.json",
                "gaps/gap_index.jsonl", "receipts*.ndjson", "trust_bundle.v1.json">>

\* the labels passed to generate here
Labels == <<"EVIDENCE.json", "trust_bundle.v1.json">>

Range(seq) == {seq[k] : k \in 1..Len(seq)}

IndexIn(seq, x) == IF \E k \in 1..Len(seq) : seq[k] = x
                   THEN CHOOSE k \in 1..Len(seq) : seq[k] = x
                   ELSE 0

\* a < b on str
StrLess(a, b) == IndexIn(LabelOrder, a) < IndexIn(LabelOrder, b)

\* sorted(list): a stable sort, duplicates kept
RECURSIVE InsertSorted(_, _)
InsertSorted(x, seq) ==
    IF seq = <<>> THEN <<x>>
    ELSE IF StrLess(x, Head(seq)) THEN <<x>> \o seq
    ELSE <<Head(seq)>> \o InsertSorted(x, Tail(seq))

RECURSIVE sorted(_)
sorted(list) ==
    IF list = <<>> THEN <<>>
    ELSE InsertSorted(list[Len(list)], sorted(SubSeq(list, 1, Len(list) - 1)))

\* sorted(set(list)): the elements of a set of labels, each once, in ascending
\* str order
SetAsSortedSequence(S) ==
    CHOOSE seq \in [1..Cardinality(S) -> S] :
        /\ Range(seq) = S
        /\ \A k \in 1..(Len(seq) - 1) : StrLess(seq[k], seq[k + 1])

\* every list of at most n elements of S
RECURSIVE ListsUpTo(_, _)
ListsUpTo(S, n) ==
    IF n = 0 THEN {<<>>}
    ELSE ListsUpTo(S, n - 1)
         \cup {Append(l, x) : l \in {m \in ListsUpTo(S, n - 1) : Len(m) = n - 1}, x \in S}

(***************************************************************************)
(* json.dumps(observation, sort_keys=True, separators=(",", ":")).encode() *)
(* The byte string is kept as its value literals in key order (commit,     *)
(* evidence, omissions, reason, repository, status, timestamp); Utf8Text   *)
(* is the text itself.                                                     *)
(***************************************************************************)
JsonStr(s) == "\"" \o s \o "\""
JsonOptStr(s) == IF s = None THEN "null" ELSE JsonStr(s)
JsonInt(n) == ToString(n)

\* the payload with the status member left out of what is hashed and signed
json_dumps_StatusOmitted(observation) ==
    << JsonOptStr(observation.commit),
       [k \in 1..Len(observation.evidence) |-> JsonStr(observation.evidence[k])],
       JsonInt(observation.omissions),
       JsonStr(observation.reason),
       JsonStr(observation.repository),
       JsonStr(""),
       JsonStr(Join(observation.timestamp)) >>

json_dumps(observation) ==
    << JsonOptStr(observation.commit),
       [k \in 1..Len(observation.evidence) |-> JsonStr(observation.evidence[k])],
       JsonInt(observation.omissions),
       JsonStr(observation.reason),
       JsonStr(observation.repository),
       JsonStr(observation.status),
       JsonStr(Join(observation.timestamp)) >>

RECURSIVE JoinWith(_, _)
JoinWith(sep, strs) ==
    IF strs = <<>> THEN ""
    ELSE IF Len(strs) = 1 THEN strs[1]
    ELSE strs[1] \o sep \o JoinWith(sep, Tail(strs))

Utf8Text(bytes) ==
    "{\"commit\":" \o bytes[1]
        \o ",\"evidence\":[" \o JoinWith(",", bytes[2]) \o "]"
        \o ",\"omissions\":" \o bytes[3]
        \o ",\"reason\":" \o bytes[4]
        \o ",\"repository\":" \o bytes[5]
        \o ",\"status\":" \o bytes[6]
        \o ",\"timestamp\":" \o bytes[7] \o "}"

(***************************************************************************)
(* hashlib.sha256(bytes).hexdigest(): SHA-256 is modelled as an ideal      *)
(* hash, one that has no collision on the messages of the model, also in   *)
(* the first 12 characters that go into pointer_id.  Each message gets a   *)
(* number in two parts (MessageNumber): one for the evidence member, one   *)
(* to one on the lists of at most 7 of the labels check_evidence reports   *)
(* (LabelOrder), and one for the other six members, one to one on the      *)
(* value domains above.  Each part is scrambled by an odd multiplier       *)
(* modulo a power of two (still one to one), the two give 5 and 6 hex      *)
(* digits, and these 11 digits are spread over 64 lower-case hex           *)
(* characters.                                                             *)
(***************************************************************************)
Literals(values) == [k \in 1..Len(values) |-> JsonOptStr(values[k])]
TimestampLiterals ==
    LET clocks == CHOOSE seq \in [1..Cardinality(Clock) -> Clock] :
                      Range(seq) = Clock
    IN [k \in 1..Len(clocks) |-> JsonStr(Join(isoformat(clocks[k])))]
OmissionLiterals == [k \in 1..(MaxOmissions + MaxGapLines + 1) |-> JsonInt(k - 1)]

\* the evidence literals as a number in base 9, first element lowest
RECURSIVE EvidenceNumber(_)
EvidenceNumber(lits) ==
    IF lits = <<>> THEN 0
    ELSE IndexIn(Literals(LabelOrder), Head(lits))
         + (Len(LabelOrder) + 1) * EvidenceNumber(Tail(lits))

\* the message as a pair of numbers: the six other members, the evidence
MessageNumber(bytes) ==
    LET digits == << IndexIn(Literals(CommitValues), bytes[1]),
                     IndexIn(OmissionLiterals, bytes[3]),
                     IndexIn(Literals(ReasonValues), bytes[4]),
                     IndexIn(Literals(RepositoryValues), bytes[5]),
                     IndexIn(Literals(StatusValues), bytes[6]),
                     IndexIn(TimestampLiterals, bytes[7]) >>
        radix == << Len(CommitValues) + 1,
                    Len(OmissionLiterals) + 1,
                    Len(ReasonValues) + 1,
                    Len(RepositoryValues) + 1,
                    Len(StatusValues) + 1,
                    Cardinality(Clock) + 1 >>
        F[k \in 0..6] == IF k = 0 THEN 0 ELSE F[k - 1] * radix[k] + digits[k]
    IN <<F[6], EvidenceNumber(bytes[2])>>

sha256_hexdigest(bytes) ==
    LET n == MessageNumber(bytes)
        s == (n[1] * 1103 + 7919) % 1048576
        e == (n[2] * 37 + 11) % 16777216
        d == [k \in 1..11 |-> IF k <= 5 THEN (s \div Pow(16, k - 1)) % 16
                              ELSE (e \div Pow(16, k - 6)) % 16]
    IN [j \in 1..DigestChars |-> HexChar[((d[((j - 1) % 11) + 1] + ((j - 1) \div 11)) % 16) + 1]]

(***************************************************************************)
(* The signing capability (croviapro.crypto.signer, not part of this       *)
(* repository), by its contract: sign(bytes) gives a signature and the key *)
(* id of the signer; verify(signature, bytes, public_key) is true exactly  *)
(* for the signature the holder of public_key's secret makes over bytes.   *)
(* A signature is the string of the secret and the digest of the signed    *)
(* bytes (one signature for each secret and message, as the digest has no  *)
(* collision).                                                             *)
(***************************************************************************)
KeyPairs == { [key_id |-> "key-A", secret |-> "sk-A", public |-> "pk-A"],
              [key_id |-> "key-B", secret |-> "sk-B", public |-> "pk-B"] }
PublicKeys == {kp.public : kp \in KeyPairs} \cup {"pk-unrelated"}

Ed25519Sign(secret, bytes) ==
    "ed25519:" \o secret \o ":" \o Join(sha256_hexdigest(bytes))

\* CroviaSigner.verify(sig, observation_bytes, public_key)
CroviaSigner_verify(sig, bytes, public_key) ==
    \E kp \in KeyPairs :
        kp.public = public_key /\ sig.signature = Ed25519Sign(kp.secret, bytes)

\* the objects a SignedPointerGenerator is constructed with: no signer, a working
\* signer, and a signer whose sign() raises
NoSigner == [present |-> FALSE, key_id |-> None, secret |-> None, raises |-> None]
SignerObjects ==
    {NoSigner}
    \cup {[present |-> TRUE, key_id |-> "key-A", secret |-> "sk-A", raises |-> None]}
    \cup {[present |-> TRUE, key_id |-> "key-A", secret |-> "sk-A",
           raises |-> "RuntimeError"]}

\* self._signer.sign(observation_bytes): the exception it raises (or None) and the
\* CroviaSignature it returns
signer_sign(s, bytes) ==
    IF s.raises # None
    THEN [exc |-> s.raises, signature |-> None, key_id |-> None]
    ELSE [exc |-> None, signature |-> Ed25519Sign(s.secret, bytes), key_id |-> s.key_id]

(***************************************************************************)
(* SignedPointer and SignedPointerGenerator.generate                       *)
(***************************************************************************)
PointerFields == {"pointer_id", "schema", "version", "observed_at", "repository",
                  "commit_sha", "branch", "status", "reason", "evidence_found",
                  "critical_omissions", "observation_hash", "signature",
                  "signer_key_id", "registry_eligible"}

NoPointer ==
    [pointer_id |-> <<>>, schema |-> "", version |-> "", observed_at |-> <<>>,
     repository |-> "", commit_sha |-> None, branch |-> None, status |-> "",
     reason |-> "", evidence_found |-> <<>>, critical_omissions |-> 0,
     observation_hash |-> <<>>, signature |-> None, signer_key_id |-> None,
     registry_eligible |-> FALSE]

\* os.getenv(name, default) in an environment env (a record of Optional[str])
getenv(env, name, default) == IF env[name] = None THEN default ELSE env[name]

\* the payload built from the list as passed in, not sorted
BuildObservation_Unsorted(now, repository, commit_sha, status, reason, evidence_found, critical_omissions) ==
    [timestamp |-> isoformat(now),
     repository |-> repository,
     commit |-> commit_sha,
     status |-> status,
     reason |-> reason,
     evidence |-> evidence_found,
     omissions |-> critical_omissions]

\* the observation payload generate builds
BuildObservation(now, repository, commit_sha, status, reason, evidence_found, critical_omissions) ==
    [timestamp |-> isoformat(now),
     repository |-> repository,
     commit |-> commit_sha,
     status |-> status,
     reason |-> reason,
     evidence |-> sorted(evidence_found),
     omissions |-> critical_omissions]

\* the id without .upper()
PointerId_NoUpper(now, observation_hash) ==
    <<"P", "T", "R", "-">> \o strftime_Ymd(now) \o <<"-">>
        \o Prefix(observation_hash, IdHashChars)

\* f"PTR-{now.strftime('%Y%m%d')}-{observation_hash[:12].upper()}"
PointerId(now, observation_hash) ==
    <<"P", "T", "R", "-">> \o strftime_Ymd(now) \o <<"-">>
        \o Upper(Prefix(observation_hash, IdHashChars))

\* every pointer marked eligible
RegistryEligible_Always(signature) == TRUE

\* registry_eligible=signature is not None
RegistryEligible(signature) == signature # None

\* generate(...): the exception it ends in (or None) and the pointer it returns
generate(self_signer, now, env, status, reason, evidence_found, critical_omissions, repository_arg, commit_sha_arg, branch_arg) ==
    LET repository == OrElse(repository_arg,
                             getenv(env, "GITHUB_REPOSITORY", "unknown/unknown"))
        commit_sha == OrElse(commit_sha_arg, getenv(env, "GITHUB_SHA", None))
        branch == OrElse(branch_arg, getenv(env, "GITHUB_REF_NAME", None))
        observation == BuildObservation(now, repository, commit_sha, status, reason,
                                        evidence_found, critical_omissions)
        observation_bytes == json_dumps(observation)
        observation_hash == sha256_hexdigest(observation_bytes)
        pointer_id == PointerId(now, observation_hash)
            sig == IF self_signer.present
                   THEN signer_sign(self_signer, observation_bytes)
                   ELSE [exc |-> None, signature |-> None, key_id |-> None]
        IN  IF sig.exc # None
            THEN [exc |-> sig.exc, value |-> NoPointer]
            ELSE [exc |-> None,
                  value |->
                    [pointer_id |-> pointer_id,
                     schema |-> "crovia.pointer.v1",
                     version |-> "1.0.0",
                     observed_at |-> isoformat(now),
                     repository |-> repository,
                     commit_sha |-> commit_sha,
                     branch |-> branch,
                     status |-> status,
                     reason |-> reason,
                     evidence_found |-> sorted(evidence_found),
                     critical_omissions |-> critical_omissions,
                     observation_hash |-> observation_hash,
                     signature |-> sig.signature,
                     signer_key_id |-> sig.key_id,
                     registry_eligible |-> RegistryEligible(sig.signature)]]

(***************************************************************************)
(* SignedPointerGenerator.verify                                           *)
(***************************************************************************)
\* the observation verify rebuilds from the pointer's own fields
RebuildObservation(p) ==
    [timestamp |-> p.observed_at,
     repository |-> p.repository,
     commit |-> p.commit_sha,
     status |-> p.status,
     reason |-> p.reason,
     evidence |-> p.evidence_found,
     omissions |-> p.critical_omissions]

\* no handler: the ImportError leaves verify
OnImportError_Propagates == [exc |-> "ImportError", value |-> FALSE]

\* except ImportError: return False
OnImportError == [exc |-> None, value |-> FALSE]

\* the states of the signing capability in the verifying environment:
\*   "missing": croviapro.crypto.signer cannot be imported (ImportError);
\*   "ok":      CroviaSigner.verify returns its verdict;
\*   "raises":  CroviaSigner.verify (or CroviaSignature) raises, e.g. ValueError
Capability == {"missing", "ok", "raises"}

\* the try block of verify
VerifySignature(p, observation_bytes, public_key, capability) ==
    IF capability = "missing"
    THEN OnImportError
    ELSE IF capability = "raises"
    THEN [exc |-> "ValueError", value |-> FALSE]
    ELSE [exc |-> None,
          value |-> CroviaSigner_verify(
                        [signature |-> p.signature,
                         key_id |-> OrElse(p.signer_key_id, "")],
                        observation_bytes, public_key)]

\* computed_hash != pointer.observation_hash
HashMismatch(computed_hash, observation_hash) == computed_hash # observation_hash

\* verify(pointer, public_key): the exception it ends in (or None) and its result
verify(p, public_key, capability) ==
    IF ~Truthy(p.signature)
    THEN [exc |-> None, value |-> FALSE]
    ELSE
    LET observation == RebuildObservation(p)
        observation_bytes == json_dumps(observation)
        computed_hash == sha256_hexdigest(observation_bytes)
    IN  IF HashMismatch(computed_hash, p.observation_hash)
        THEN [exc |-> None, value |-> FALSE]
        ELSE VerifySignature(p, observation_bytes, public_key, capability)

(***************************************************************************)
(* The evidence check: check.py (module level) and check_v2.py             *)
(* (check_evidence, main).  The tree under ROOT is the set of marker and   *)
(* artifact files present, the number of directories that hold a           *)
(* receipts*.ndjson file, and gaps/gap_index.jsonl (absent, or its lines). *)
(* A line of the gap index is what json.loads makes of it: invalid JSON,   *)
(* a value that is no object, an object without severity, or an object     *)
(* with a severity (in tenths).                                            *)
(***************************************************************************)
PRIMARY(sc) ==
    IF sc = "check.py"
    THEN <<"EVIDENCE.json", "trust_bundle.v1.json", "cep_capsule.v1.json">>
    ELSE <<"EVIDENCE.json", "trust_bundle.v1.json", "cep_capsule.v1.json",
           "crovia_manifest.json">>

CFIC_MARKERS == <<".crovia/cfic_certificate.json", "CFIC.json">>

\* the files of the tree that the model lets be present or absent
TreeFiles == {"EVIDENCE.json", "crovia_manifest.json", ".crovia/cfic_certificate.json",
              "CFIC.json"}

\* the lines of gaps/gap_index.jsonl: bytes that are not UTF-8, text that is
\* not JSON, JSON that is not an object, and objects without and with a
\* severity (in tenths)
GapLineKinds ==
    { [json |-> "undecodable", severity |-> 0],
      [json |-> "invalid", severity |-> 0],
      [json |-> "not_an_object", severity |-> 0],
      [json |-> "object_no_severity", severity |-> 0],
      [json |-> "object", severity |-> 5],
      [json |-> "object", severity |-> 8] }

EmptyTree == [files |-> {}, receipt_dirs |-> 0,
              gap_index |-> [exists |-> FALSE, lines |-> <<>>]]

Trees ==
    { [files |-> F, receipt_dirs |-> n, gap_index |-> g] :
        F \in SUBSET TreeFiles,
        n \in 0..MaxReceiptDirs,
        g \in {[exists |-> FALSE, lines |-> <<>>]}
              \cup {[exists |-> TRUE, lines |-> l] : l \in ListsUpTo(GapLineKinds, MaxGapLines)} }

\* exists(rel)
exists(tree, rel) == rel \in tree.files

\* for p in PRIMARY: if exists(p): found_primary.append(p)
RECURSIVE FoundOf(_, _)
FoundOf(tree, names) ==
    IF names = <<>> THEN <<>>
    ELSE (IF exists(tree, Head(names)) THEN <<Head(names)>> ELSE <<>>)
         \o FoundOf(tree, Tail(names))

\* the os.walk loop: one append for each directory holding a receipts*.ndjson
ReceiptsFound(tree) == [k \in 1..tree.receipt_dirs |-> "receipts*.ndjson"]

\* for marker in CFIC_MARKERS: if exists(marker): ...; break
RECURSIVE FirstMarker(_, _)
FirstMarker(tree, markers) ==
    IF markers = <<>> THEN <<>>
    ELSE IF exists(tree, Head(markers)) THEN <<"[CFIC] " \o Head(markers)>>
    ELSE FirstMarker(tree, Tail(markers))

\* the body of the try block for one line: does it add one to critical_omissions
CriticalLine(line) == line.json = "object" /\ line.severity >= SeverityThreshold

\* for line in fh: the text layer decodes the file as UTF-8 outside the try block
Decodable(lines) == \A k \in 1..Len(lines) : lines[k].json # "undecodable"

RECURSIVE CountCritical(_)
CountCritical(lines) ==
    IF lines = <<>> THEN 0
    ELSE (IF CriticalLine(Head(lines)) THEN 1 ELSE 0) + CountCritical(Tail(lines))

\* check_evidence(): found_primary, critical_omissions, cfic_certified, or the
\* exception it ends in (check.py: the same scan at module level, without the
\* CFIC markers)
check_evidence(sc, tree) ==
    LET primary == FoundOf(tree, PRIMARY(sc))
        receipts == ReceiptsFound(tree)
        marker == IF sc = "check.py" THEN <<>> ELSE FirstMarker(tree, CFIC_MARKERS)
    IN  IF tree.gap_index.exists /\ ~Decodable(tree.gap_index.lines)
        THEN [exc |-> "UnicodeDecodeError", found_primary |-> <<>>, checked |-> <<>>,
              cfic_certified |-> FALSE, critical_omissions |-> 0]
        ELSE [exc |-> None,
              found_primary |-> primary \o receipts \o marker,
              checked |-> PRIMARY(sc) \o receipts \o <<"gaps/gap_index.jsonl">>,
              cfic_certified |-> marker # <<>>,
              critical_omissions |->
                 IF tree.gap_index.exists THEN CountCritical(tree.gap_index.lines)
                 ELSE 0]

\* certification looked at before the omissions
DecideVerdict_CertificationFirst(sc, found_primary, critical_omissions, cfic_certified) ==
    IF found_primary = <<>>
    THEN [status |-> "RED", reason |-> "evidence_absent"]
    ELSE IF cfic_certified /\ sc # "check.py"
    THEN [status |-> "GREEN", reason |-> "cfic_certified"]
    ELSE IF critical_omissions > 0
    THEN [status |-> "RED", reason |-> "evidence_compromised"]
    ELSE [status |-> "GREEN", reason |-> "evidence_recorded"]

\* "Decide verdict": main of check_v2.py, and check.py (which has no CFIC upgrade)
DecideVerdict(sc, found_primary, critical_omissions, cfic_certified) ==
    IF found_primary = <<>>
    THEN [status |-> "RED", reason |-> "evidence_absent"]
    ELSE IF critical_omissions > 0
    THEN [status |-> "RED", reason |-> "evidence_compromised"]
    ELSE [status |-> "GREEN",
          reason |-> IF cfic_certified /\ sc # "check.py"
                     THEN "cfic_certified" ELSE "evidence_recorded"]

NoEnviron == [CROVIA_STATUS |-> None, CROVIA_REASON |-> None, CROVIA_PRIMARY |-> <<>>,
              CROVIA_CRITICAL_OMISSIONS |-> None, CROVIA_CHECKED |-> <<>>]

NoRun == [pc |-> "start", exc |-> None, found_primary |-> <<>>, checked |-> <<>>,
          critical_omissions |-> 0, cfic_certified |-> FALSE, status |-> "",
          reason |-> "", environ |-> NoEnviron, badge |-> FALSE,
          pointer |-> NoPointer, pointer_path |-> None, exit_code |-> 0]

\* the environment a script is started in with nothing configured
DefaultConfig == [CROVIA_MODE |-> None, CROVIA_BADGE |-> None, CROVIA_POINTER |-> None]

NoVerdict == [schema |-> "", context |-> "", status |-> "", reason |-> "",
              primary_found |-> <<>>, critical_omissions |-> 0,
              artifacts_checked |-> <<>>]
NoVerdicts == [latest |-> NoVerdict, index |-> <<>>]

(***************************************************************************)
(* SignedPointer.to_json and SignedPointerGenerator.save.                  *)
(*                                                                         *)
(* save opens the path for writing (which creates the file or truncates it *)
(* to empty), hands the text to the buffered file object, and the bytes    *)
(* reach the file when the with block closes it: one write at offset 0 of  *)
(* this open file.  A write that fails leaves the bytes it got through and *)
(* raises OSError.  The bytes of a file are kept as segments [src, lo, hi]: *)
(* bytes lo..hi of the text of pointer number src.                         *)
(***************************************************************************)
JsonBool(b) == IF b THEN "true" ELSE "false"

\* a list under indent=2, at nesting level 1
JsonListIndented(strs) ==
    IF strs = <<>> THEN "[]"
    ELSE "[\n    "
         \o JoinWith(",\n    ", [k \in 1..Len(strs) |-> JsonStr(strs[k])])
         \o "\n  ]"

\* json.dumps(asdict(self), indent=2)
to_json(p) ==
    "{\n  \"pointer_id\": " \o JsonStr(Join(p.pointer_id))
        \o ",\n  \"schema\": " \o JsonStr(p.schema)
        \o ",\n  \"version\": " \o JsonStr(p.version)
        \o ",\n  \"observed_at\": " \o JsonStr(Join(p.observed_at))
        \o ",\n  \"repository\": " \o JsonStr(p.repository)
        \o ",\n  \"commit_sha\": " \o JsonOptStr(p.commit_sha)
        \o ",\n  \"branch\": " \o JsonOptStr(p.branch)
        \o ",\n  \"status\": " \o JsonStr(p.status)
        \o ",\n  \"reason\": " \o JsonStr(p.reason)
        \o ",\n  \"evidence_found\": " \o JsonListIndented(p.evidence_found)
        \o ",\n  \"critical_omissions\": " \o JsonInt(p.critical_omissions)
        \o ",\n  \"observation_hash\": " \o JsonStr(Join(p.observation_hash))
        \o ",\n  \"signature\": " \o JsonOptStr(p.signature)
        \o ",\n  \"signer_key_id\": " \o JsonOptStr(p.signer_key_id)
        \o ",\n  \"registry_eligible\": " \o JsonBool(p.registry_eligible)
        \o "\n}"

\* os.path.join(output_dir, f"{pointer.pointer_id}.json")
SavePath(output_dir, p) == output_dir \o "/" \o Join(p.pointer_id) \o ".json"

\* the pointers that get saved here: the first two are one observation without
\* and with a signature (one pointer_id, two texts of different length), the
\* third is another observation of the same day
SavePointers ==
    LET now == [year |-> 2024, month |-> 3, day |-> 15, hour |-> 10, minute |-> 20,
                second |-> 30, microsecond |-> 123]
        env == [GITHUB_REPOSITORY |-> None, GITHUB_SHA |-> None,
                GITHUB_REF_NAME |-> None]
        signerA == [present |-> TRUE, key_id |-> "key-A", secret |-> "sk-A",
                    raises |-> None]
    IN  { generate(NoSigner, now, env, "GREEN", "evidence_recorded",
                   <<"EVIDENCE.json">>, 0, None, None, None).value,
          generate(signerA, now, env, "GREEN", "evidence_recorded",
                   <<"EVIDENCE.json">>, 0, None, None, None).value,
          generate(NoSigner, now, env, "RED", "evidence_absent",
                   <<>>, 0, None, None, None).value }

OutputDir == ".crovia"

\* the whole of a text, as the bytes of a file
Complete(text) == <<[text |-> text, lo |-> 1, hi |-> Len(text)]>>

\* the first n bytes of a text
FirstBytes(text, n) == IF n = 0 THEN <<>> ELSE <<[text |-> text, lo |-> 1, hi |-> n]>>

\* the bytes of data from offset n on
RECURSIVE DropBytes(_, _)
DropBytes(data, n) ==
    IF data = <<>> THEN <<>>
    ELSE LET seg == Head(data)
             size == seg.hi - seg.lo + 1
         IN  IF n >= size THEN DropBytes(Tail(data), n - size)
             ELSE IF n = 0 THEN data
             ELSE <<[seg EXCEPT !.lo = seg.lo + n]>> \o Tail(data)

\* adjacent segments that continue one text are one segment
RECURSIVE Merged(_)
Merged(data) ==
    IF Len(data) < 2 THEN data
    ELSE LET a == data[1]
             b == data[2]
         IN  IF a.text = b.text /\ a.hi + 1 = b.lo
             THEN Merged(<<[a EXCEPT !.hi = b.hi]>> \o SubSeq(data, 3, Len(data)))
             ELSE <<a>> \o Merged(Tail(data))

\* write(fd, bytes) at offset 0 of a file that holds data
WriteAtStart(data, bytes) ==
    IF bytes = <<>> THEN data
    ELSE Merged(bytes \o DropBytes(data, bytes[1].hi - bytes[1].lo + 1))

\* files and firstSaved are functions of the paths that exist
EmptyDir == <<>>
NothingSaved == <<>>

Writers == {"run-1", "run-2"}
IdleWriters ==
    [w \in Writers |-> [pc |-> "idle", pointer |-> NoPointer, path |-> None,
                        text |-> "", saves |-> 0]]

\* os.makedirs(output_dir, exist_ok=True); open(path, "w", encoding="utf-8")
SaveOpen(w) ==
    /\ writers[w].pc = "idle"
    /\ writers[w].saves < MaxSaves
    /\ \E p \in SavePointers :
          LET path == SavePath(OutputDir, p)
          IN  /\ writers' = [writers EXCEPT ![w].pc = "opened", ![w].pointer = p,
                                            ![w].path = path, ![w].text = ""]
              /\ files' = (path :> <<>>) @@ files
    /\ UNCHANGED <<firstSaved, pointerVars, checkVars>>

\* f.write(pointer.to_json()): the text goes to the buffer of the file object
SaveWrite(w) ==
    /\ writers[w].pc = "opened"
    /\ writers' = [writers EXCEPT ![w].pc = "buffered",
                                  ![w].text = to_json(writers[w].pointer)]
    /\ UNCHANGED <<files, firstSaved, pointerVars, checkVars>>

\* leaving the with block: the buffer is flushed and the file closed; return path
SaveClose(w) ==
    /\ writers[w].pc = "buffered"
    /\ LET path == writers[w].path
           bytes == Complete(writers[w].text)
       IN  /\ files' = [files EXCEPT ![path] = WriteAtStart(files[path], bytes)]
           /\ firstSaved' = IF path \in DOMAIN firstSaved THEN firstSaved
                            ELSE (path :> bytes) @@ firstSaved
    /\ writers' = [writers EXCEPT ![w].pc = "idle", ![w].saves = @ + 1]
    /\ UNCHANGED <<pointerVars, checkVars>>

\* the flush fails (OSError: disk full, file size limit, I/O error) after any
\* number of the bytes short of all got through; the exception leaves save
SaveCloseFails(w) ==
    /\ writers[w].pc = "buffered"
    /\ Cardinality({v \in Writers : writers[v].pc = "failed"}) < MaxFailures
    /\ LET path == writers[w].path
           text == writers[w].text
       IN  \E n \in 0..(Len(text) - 1) :
              files' = [files EXCEPT
                          ![path] = WriteAtStart(files[path], FirstBytes(text, n))]
    /\ writers' = [writers EXCEPT ![w].pc = "failed"]
    /\ UNCHANGED <<firstSaved, pointerVars, checkVars>>

(***************************************************************************)
(* The life cycle of one pointer: a generator is constructed with a signer *)
(* or without, generate is called once, the caller may reassign one field  *)
(* of the pointer it holds (SignedPointer is a plain mutable dataclass),   *)
(* and verify is called on the pointer.                                    *)
(***************************************************************************)
Environments ==
    { [GITHUB_REPOSITORY |-> None, GITHUB_SHA |-> None, GITHUB_REF_NAME |-> None],
      [GITHUB_REPOSITORY |-> "org/repo", GITHUB_SHA |-> "9f8e7d6",
       GITHUB_REF_NAME |-> "main"] }

\* the identity arguments of generate
IdentityArgs ==
    { [repository |-> None, commit_sha |-> None, branch |-> None],
      [repository |-> "test/repo", commit_sha |-> "abc123", branch |-> "dev"] }

\* the (status, reason) pairs of a verdict
Verdicts ==
    { [status |-> "RED", reason |-> "evidence_absent"],
      [status |-> "RED", reason |-> "evidence_compromised"],
      [status |-> "GREEN", reason |-> "evidence_recorded"],
      [status |-> "GREEN", reason |-> "cfic_certified"] }

EvidenceLists == ListsUpTo(Range(Labels), MaxEvidence)

NoInput ==
    [now |-> CHOOSE c \in Clock : TRUE, env |-> CHOOSE e \in Environments : TRUE,
     status |-> "", reason |-> "", evidence_found |-> <<>>, critical_omissions |-> 0,
     repository |-> None, commit_sha |-> None, branch |-> None]

NoVerify == [public_key |-> None, capability |-> "missing", exc |-> None, value |-> FALSE]

Init ==
    /\ signer \in SignerObjects
    /\ pc = "constructed"
    /\ pointer = NoPointer
    /\ genInput = NoInput
    /\ genError = None
    /\ tampered = None
    /\ lastVerify = NoVerify
    /\ script = "check_v2.py"
    /\ fs = EmptyTree
    /\ run = NoRun
    /\ config = DefaultConfig
    /\ verdictStore = NoVerdicts
    /\ files = EmptyDir
    /\ writers = IdleWriters
    /\ firstSaved = NothingSaved

\* pointer = generator.generate(status, reason, evidence_found, ...)
Generate ==
    /\ pc = "constructed"
    /\ \E now \in Clock, env \in Environments, id \in IdentityArgs, v \in Verdicts,
          ev \in EvidenceLists, om \in 0..MaxOmissions :
          LET r == generate(signer, now, env, v.status, v.reason, ev, om,
                            id.repository, id.commit_sha, id.branch)
          IN  /\ genInput' = [now |-> now, env |-> env, status |-> v.status,
                              reason |-> v.reason, evidence_found |-> ev,
                              critical_omissions |-> om, repository |-> id.repository,
                              commit_sha |-> id.commit_sha, branch |-> id.branch]
              /\ genError' = r.exc
              /\ pointer' = r.value
              /\ pc' = IF r.exc = None THEN "generated" ELSE "generate_raised"
    /\ UNCHANGED <<signer, tampered, lastVerify, checkVars, storeVars>>

\* the values a caller may assign to field f of pointer p
TamperValues(p, f) ==
    CASE f = "pointer_id" -> {<<"P", "T", "R", "-">> \o ZeroPad(19700101, 8) \o <<"-">>
                                \o [k \in 1..IdHashChars |-> "0"]}
      [] f = "schema" -> {"crovia.pointer.v2"}
      [] f = "version" -> {"2.0.0"}
      [] f = "observed_at" -> {isoformat(c) : c \in Clock}
      [] f = "repository" -> Range(RepositoryValues)
      [] f = "commit_sha" -> Range(CommitValues)
      [] f = "branch" -> Range(BranchValues)
      [] f = "status" -> Range(StatusValues)
      [] f = "reason" -> Range(ReasonValues)
      [] f = "evidence_found" -> EvidenceLists
      [] f = "critical_omissions" -> 0..MaxOmissions
      [] f = "observation_hash" -> {[j \in 1..DigestChars |-> "0"]}
      [] f = "signature" ->
            {None, ""} \cup {Ed25519Sign(kp.secret, json_dumps(RebuildObservation(p))) :
                                kp \in KeyPairs}
      [] f = "signer_key_id" -> {None} \cup {kp.key_id : kp \in KeyPairs}
      [] f = "registry_eligible" -> BOOLEAN

\* pointer.<f> = v, for one field f and a value v other than the one it holds
Tamper ==
    /\ pc = "generated"
    /\ \E f \in PointerFields :
          \E v \in TamperValues(pointer, f) :
              /\ v # pointer[f]
              /\ pointer' = [pointer EXCEPT ![f] = v]
              /\ tampered' = f
    /\ pc' = "tampered"
    /\ UNCHANGED <<signer, genInput, genError, lastVerify, checkVars, storeVars>>

\* SignedPointerGenerator.verify(pointer, public_key)
Verify ==
    /\ pc \in {"generated", "tampered"}
    /\ \E public_key \in PublicKeys, capability \in Capability :
          LET r == verify(pointer, public_key, capability)
          IN  lastVerify' = [public_key |-> public_key, capability |-> capability,
                             exc |-> r.exc, value |-> r.value]
    /\ pc' = "verified"
    /\ UNCHANGED <<signer, pointer, genInput, genError, tampered, checkVars, storeVars>>

Next == Generate \/ Tamper \/ Verify

Spec == Init /\ [][Next]_vars

(***************************************************************************)
(* One run of the check over a tree.                                       *)
(***************************************************************************)
CheckInit ==
    /\ script \in {"check.py", "check_v2.py"}
    /\ fs \in Trees
    /\ run = NoRun
    /\ config = DefaultConfig
    /\ verdictStore = NoVerdicts
    /\ signer = NoSigner
    /\ pc = "constructed"
    /\ pointer = NoPointer
    /\ genInput = NoInput
    /\ genError = None
    /\ tampered = None
    /\ lastVerify = NoVerify
    /\ files = EmptyDir
    /\ writers = IdleWriters
    /\ firstSaved = NothingSaved

\* found_primary, checked, critical_omissions, cfic_certified = check_evidence()
CheckEvidence ==
    /\ run.pc = "start"
    /\ LET r == check_evidence(script, fs)
       IN  run' = [run EXCEPT !.pc = IF r.exc = None THEN "scanned" ELSE "raised",
                              !.exc = r.exc,
                              !.found_primary = r.found_primary,
                              !.checked = r.checked,
                              !.critical_omissions = r.critical_omissions,
                              !.cfic_certified = r.cfic_certified]
    /\ UNCHANGED <<script, fs, config, verdictStore, pointerVars, storeVars>>

\* the if / elif / else that sets status and reason
Decide ==
    /\ run.pc = "scanned"
    /\ LET v == DecideVerdict(script, run.found_primary, run.critical_omissions,
                              run.cfic_certified)
       IN  run' = [run EXCEPT !.pc = "decided", !.status = v.status,
                              !.reason = v.reason]
    /\ UNCHANGED <<script, fs, config, verdictStore, pointerVars, storeVars>>

CheckNext == CheckEvidence \/ Decide

CheckSpec == CheckInit /\ [][CheckNext]_vars

(***************************************************************************)
(* Processes saving pointers into one output directory.                    *)
(***************************************************************************)
StoreInit ==
    /\ files = EmptyDir
    /\ writers = IdleWriters
    /\ firstSaved = NothingSaved
    /\ signer = NoSigner
    /\ pc = "constructed"
    /\ pointer = NoPointer
    /\ genInput = NoInput
    /\ genError = None
    /\ tampered = None
    /\ lastVerify = NoVerify
    /\ script = "check_v2.py"
    /\ fs = EmptyTree
    /\ run = NoRun
    /\ config = DefaultConfig
    /\ verdictStore = NoVerdicts

StoreNext ==
    \E w \in Writers :
        SaveOpen(w) \/ SaveWrite(w) \/ SaveClose(w) \/ SaveCloseFails(w)

StoreSpec == StoreInit /\ [][StoreNext]_vars

(***************************************************************************)
(* A whole run of check_v2.py (main) or check.py (module level): the scan  *)
(* and the verdict as above, then the export of the verdict, the badge,    *)
(* the pointer, the verdict writer and the exit.                           *)
(***************************************************************************)
\* str.lower() on the values the variables take here
lower(s) ==
    CASE s = "FAIL" -> "fail"
      [] s = "FALSE" -> "false"
      [] OTHER -> s

\* ROOT = os.getenv("CROVIA_ROOT", ".")
ROOT == "."

\* MODE = os.getenv("CROVIA_MODE", "warn").lower()
MODE(cfg) == lower(getenv(cfg, "CROVIA_MODE", "warn"))

\* GENERATE_BADGE = os.getenv("CROVIA_BADGE", "true").lower() == "true"
GENERATE_BADGE(cfg) == lower(getenv(cfg, "CROVIA_BADGE", "true")) = "true"

\* GENERATE_POINTER = os.getenv("CROVIA_POINTER", "true").lower() == "true"
GENERATE_POINTER(cfg) == lower(getenv(cfg, "CROVIA_POINTER", "true")) = "true"

\* the environments a run is started in; check.py reads CROVIA_MODE only
Configs(sc) ==
    { [CROVIA_MODE |-> m, CROVIA_BADGE |-> b, CROVIA_POINTER |-> p] :
        m \in {None, "fail", "FAIL"},
        b \in IF sc = "check.py" THEN {None} ELSE {None, "false"},
        p \in IF sc = "check.py" THEN {None} ELSE {None, "FALSE"} }

\* the trees of the runs followed to their exit
RunTrees ==
    {t \in Trees : t.receipt_dirs <= 1 /\ Len(t.gap_index.lines) <= 1}

\* every exit taken as the failing one
ExitStatus_AnyRed(status, mode) == IF status = "RED" THEN 1 ELSE 0

\* if status == "RED" and MODE == "fail": sys.exit(1); sys.exit(0)
ExitStatus(status, mode) == IF status = "RED" /\ mode = "fail" THEN 1 ELSE 0

RunInit ==
    /\ script \in {"check.py", "check_v2.py"}
    /\ fs \in RunTrees
    /\ config \in Configs(script)
    /\ run = NoRun
    /\ verdictStore = NoVerdicts
    /\ signer = NoSigner
    /\ pc = "constructed"
    /\ pointer = NoPointer
    /\ genInput = NoInput
    /\ genError = None
    /\ tampered = None
    /\ lastVerify = NoVerify
    /\ files = EmptyDir
    /\ writers = IdleWriters
    /\ firstSaved = NothingSaved

\* os.environ["CROVIA_STATUS"] = status, ...; a comma-joined value is kept as the
\* sequence of its parts (no label holds a comma)
ExportVerdict ==
    /\ run.pc = "decided"
    /\ run' = [run EXCEPT
                 !.pc = "exported",
                 !.environ = [CROVIA_STATUS |-> run.status,
                              CROVIA_REASON |-> run.reason,
                              CROVIA_PRIMARY |-> SetAsSortedSequence(Range(run.found_primary)),
                              CROVIA_CRITICAL_OMISSIONS |-> JsonInt(run.critical_omissions),
                              CROVIA_CHECKED |-> SetAsSortedSequence(Range(run.checked))]]
    /\ UNCHANGED <<script, fs, config, verdictStore, pointerVars, storeVars>>

\* if GENERATE_BADGE: badge_gen.generate(...) writes badge.svg and its metadata
\* (check.py has no badge)
GenerateBadge ==
    /\ run.pc = "exported"
    /\ run' = [run EXCEPT !.pc = "badge_done",
                          !.badge = (script = "check_v2.py" /\ GENERATE_BADGE(config))]
    /\ UNCHANGED <<script, fs, config, verdictStore, pointerVars, storeVars>>

\* if GENERATE_POINTER: pointer = SignedPointerGenerator().generate(...);
\* pointer_path = pointer_gen.save(pointer, os.path.join(ROOT, ".crovia"))
\* (check.py has no pointer)
GeneratePointer ==
    /\ run.pc = "badge_done"
    /\ IF script = "check_v2.py" /\ GENERATE_POINTER(config)
       THEN \E now \in Clock, env \in Environments :
               LET p == generate(NoSigner, now, env, run.status, run.reason,
                                 run.found_primary, run.critical_omissions,
                                 None, None, None).value
                   path == SavePath(ROOT \o "/" \o ".crovia", p)
               IN  /\ run' = [run EXCEPT !.pc = "pointer_done", !.pointer = p,
                                         !.pointer_path = path]
                   /\ files' = (path :> Complete(to_json(p))) @@ files
       ELSE /\ run' = [run EXCEPT !.pc = "pointer_done"]
            /\ UNCHANGED files
    /\ UNCHANGED <<script, fs, config, verdictStore, pointerVars, writers, firstSaved>>

\* subprocess.check_call([sys.executable, ".../verdict_writer.py"]): the child
\* inherits os.environ, writes verdict_latest.json and appends the same record
\* to verdict_index.jsonl (timestamp, host and run_id are left out of the record)
WriteVerdict ==
    /\ run.pc = "pointer_done"
    /\ LET verdict == [schema |-> "crovia.verdict.v1",
                       context |-> "ci",
                       status |-> OrElse(run.environ.CROVIA_STATUS, "RED"),
                       reason |-> OrElse(run.environ.CROVIA_REASON, "evidence_absent"),
                       primary_found |-> run.environ.CROVIA_PRIMARY,
                       critical_omissions |-> run.critical_omissions,
                       artifacts_checked |-> run.environ.CROVIA_CHECKED]
       IN  verdictStore' = [latest |-> verdict,
                            index |-> Append(verdictStore.index, verdict)]
    /\ run' = [run EXCEPT !.pc = "verdict_written"]
    /\ UNCHANGED <<script, fs, config, pointerVars, storeVars>>

\* "Optional fail": sys.exit(1) or sys.exit(0)
Exit ==
    /\ run.pc = "verdict_written"
    /\ run' = [run EXCEPT !.pc = "exited",
                          !.exit_code = ExitStatus(run.status, MODE(config))]
    /\ UNCHANGED <<script, fs, config, verdictStore, pointerVars, storeVars>>

RunNext ==
    \/ CheckEvidence
    \/ Decide
    \/ ExportVerdict
    \/ GenerateBadge
    \/ GeneratePointer
    \/ WriteVerdict
    \/ Exit

RunSpec == RunInit /\ [][RunNext]_vars

(***************************************************************************)
(* Claims about generate and verify, checked under Spec.                   *)
(***************************************************************************)
\* the fields of a pointer that verify puts into the observation it hashes
HashedFields == {"observed_at", "repository", "commit_sha", "status", "reason",
                 "evidence_found", "critical_omissions"}

\* the public key that belongs to a signer object
PublicKeyOf(s) == (CHOOSE kp \in KeyPairs : kp.secret = s.secret).public

\* the bytes generate hashed and signed, from the arguments of the call
SignedBytes ==
    json_dumps(BuildObservation(
        genInput.now,
        OrElse(genInput.repository,
               getenv(genInput.env, "GITHUB_REPOSITORY", "unknown/unknown")),
        OrElse(genInput.commit_sha, getenv(genInput.env, "GITHUB_SHA", None)),
        genInput.status, genInput.reason, genInput.evidence_found,
        genInput.critical_omissions))

VerifyReturned(b) == lastVerify.exc = None /\ lastVerify.value = b

\* C1 as stated: after any single field other than observation_hash of a signed
\* pointer is replaced by a different value, verify returns false for every public
\* key (taken where the verification capability works)
C1_AnyFieldTamperDetected ==
    (/\ pc = "verified"
     /\ signer.present
     /\ tampered \notin {None, "observation_hash"}
     /\ lastVerify.capability = "ok")
    => VerifyReturned(FALSE)

\* C1 amended: after any single one of the seven fields that enter the hashed
\* observation (observed_at, repository, commit_sha, status, reason,
\* evidence_found, critical_omissions) of a signed pointer is replaced by a
\* different value, observation_hash left as it was, verify returns false for
\* every public key, the signer's own included, whatever the capability does
C1_HashedFieldTamperDetected ==
    (/\ pc = "verified"
     /\ signer.present
     /\ tampered \in HashedFields)
    => VerifyReturned(FALSE)

\* a signed pointer whose status was replaced is rejected under the signer's key
C1_Witness ==
    /\ pc = "verified"
    /\ signer.present
    /\ tampered = "status"
    /\ lastVerify.capability = "ok"
    /\ lastVerify.public_key = PublicKeyOf(signer)
    /\ VerifyReturned(FALSE)

\* C2: round trip.  The bytes verify rebuilds from a generated pointer are the
\* bytes generate hashed and signed, and, where the verification capability
\* works, verify of a pointer generated with a signer returns true under that
\* signer's public key and false under every other public key
C2_RoundTrip ==
    /\ (pc = "generated" => json_dumps(RebuildObservation(pointer)) = SignedBytes)
    /\ (/\ pc = "verified"
        /\ tampered = None
        /\ signer.present
        /\ lastVerify.capability = "ok")
       => /\ lastVerify.exc = None
          /\ lastVerify.value = (lastVerify.public_key = PublicKeyOf(signer))

\* a pointer generated from a two-element list given out of order verifies
C2_Witness ==
    /\ pc = "verified"
    /\ tampered = None
    /\ signer.present
    /\ genInput.evidence_found = <<"trust_bundle.v1.json", "EVIDENCE.json">>
    /\ lastVerify.public_key = PublicKeyOf(signer)
    /\ VerifyReturned(TRUE)

\* C3: a generated pointer is registry_eligible exactly when its signature is
\* not None; generated without a signer it has signature None, signer_key_id
\* None and registry_eligible false, and verify returns false for it for every
\* public key
C3_UnsignedNeverEligible ==
    /\ (pc \in {"generated", "verified"} /\ tampered = None)
       => /\ pointer.registry_eligible = (pointer.signature # None)
          /\ ~signer.present
             => /\ pointer.signature = None
                /\ pointer.signer_key_id = None
                /\ pointer.registry_eligible = FALSE
    /\ (pc = "verified" /\ tampered = None /\ ~signer.present)
       => VerifyReturned(FALSE)

\* an unsigned pointer was verified where the capability works
C3_Witness ==
    /\ pc = "verified"
    /\ tampered = None
    /\ ~signer.present
    /\ ~pointer.registry_eligible
    /\ lastVerify.capability = "ok"
    /\ VerifyReturned(FALSE)

\* C5 as stated: when a signer was supplied and its sign call fails, generate
\* ends in a SigningFailed error and returns no pointer, and generate never
\* returns a pointer with signature None when a signer was supplied
C5_SigningFailedDistinct ==
    /\ (signer.present /\ signer.raises # None /\ pc # "constructed")
       => /\ pc = "generate_raised"
          /\ genError = "SigningFailed"
          /\ pointer = NoPointer
    /\ (pc = "generated" /\ signer.present) => pointer.signature # None

\* C8: where the capability cannot be imported verify returns false, for every
\* pointer and every public key, also for a pointer with a signature whose
\* recomputed hash equals observation_hash
C8_FailsClosed ==
    (pc = "verified" /\ lastVerify.capability = "missing") => VerifyReturned(FALSE)

\* an untampered signed pointer, checked under its signer's key without the
\* capability, is rejected
C8_Witness ==
    /\ pc = "verified"
    /\ lastVerify.capability = "missing"
    /\ signer.present
    /\ tampered = None
    /\ pointer.signature # None
    /\ sha256_hexdigest(json_dumps(RebuildObservation(pointer))) = pointer.observation_hash
    /\ lastVerify.public_key = PublicKeyOf(signer)
    /\ VerifyReturned(FALSE)

\* C9 as stated: verify always ends by returning true or false, never in an
\* exception, also when the external verification capability fails
C9_VerifyNeverRaises ==
    pc = "verified" => (lastVerify.exc = None /\ lastVerify.value \in BOOLEAN)

\* the UTC date of an ISO timestamp, as YYYYMMDD
DateOfTimestamp(ts) == SubSeq(ts, 1, 4) \o SubSeq(ts, 6, 7) \o SubSeq(ts, 9, 10)

ExampleHash ==
    <<"a", "1", "b", "2", "c", "3", "d", "4", "e", "5", "f", "6">>
        \o [k \in 1..(DigestChars - IdHashChars) |-> "0"]

\* C10: the pointer_id of a generated pointer is "PTR-", the date of its own
\* observed_at as YYYYMMDD, "-", and the first 12 characters of its own
\* observation_hash in upper case; hash a1b2c3d4e5f6... on 2024-03-15 gives
\* PTR-20240315-A1B2C3D4E5F6
C10_PointerIdFormat ==
    /\ pc = "generated"
       => /\ pointer.pointer_id =
                <<"P", "T", "R", "-">> \o DateOfTimestamp(pointer.observed_at)
                    \o <<"-">>
                    \o [k \in 1..IdHashChars |->
                          HexCharUpper[IndexIn(HexChar, pointer.observation_hash[k])]]
          /\ Len(pointer.observation_hash) = DigestChars
    /\ Join(PointerId([year |-> 2024, month |-> 3, day |-> 15, hour |-> 0,
                       minute |-> 0, second |-> 0, microsecond |-> 0], ExampleHash))
       = "PTR-20240315-A1B2C3D4E5F6"

\* a generated pointer whose hash starts with a letter digit and whose
\* timestamp has no fraction
C10_Witness ==
    /\ pc = "generated"
    /\ pointer.observation_hash[1] \in {"a", "b", "c", "d", "e", "f"}
    /\ genInput.now.microsecond = 0
    /\ Len(pointer.pointer_id) = 25

(***************************************************************************)
(* Claims about the verdict, checked under CheckSpec.                      *)
(***************************************************************************)
\* C4: verdict precedence.  No evidence found gives RED/evidence_absent whatever
\* the omission count and the certification flag; evidence found with
\* omissions > 0 gives RED/evidence_compromised also when the flag is set;
\* evidence found with no omission gives GREEN, with reason cfic_certified
\* when the flag is set and evidence_recorded otherwise
C4_VerdictPrecedence ==
    run.pc = "decided" =>
        /\ run.found_primary = <<>>
           => (run.status = "RED" /\ run.reason = "evidence_absent")
        /\ (run.found_primary # <<>> /\ run.critical_omissions > 0)
           => (run.status = "RED" /\ run.reason = "evidence_compromised")
        /\ (run.found_primary # <<>> /\ run.critical_omissions = 0)
           => /\ run.status = "GREEN"
              /\ run.cfic_certified => run.reason = "cfic_certified"
              /\ ~run.cfic_certified => run.reason = "evidence_recorded"

\* a certified tree with a critical omission was judged RED/evidence_compromised
C4_Witness ==
    /\ run.pc = "decided"
    /\ run.cfic_certified
    /\ run.critical_omissions > 0
    /\ run.status = "RED"
    /\ run.reason = "evidence_compromised"

(***************************************************************************)
(* Claims about the pointer store, checked under StoreSpec.                *)
(***************************************************************************)
\* no save is under way and none has failed
Quiescent == \A w \in Writers : writers[w].pc = "idle"

\* C6: the store is write-once; after any sequence of save calls the file of a
\* pointer_id still holds what the first save to it wrote, no later save
\* overwrites, updates or deletes it (taken when every save has completed and
\* none has failed)
C6_WriteOnce ==
    Quiescent =>
        \A path \in DOMAIN firstSaved :
            path \in DOMAIN files /\ files[path] = firstSaved[path]

\* C7: a file visible under a pointer_id path always holds the
\* complete serialization of one pointer, never a truncated, empty or
\* interleaved text, also during concurrent saves and after a failed write
C7_NeverPartial ==
    \A path \in DOMAIN files :
        /\ Len(files[path]) = 1
        /\ files[path][1].lo = 1
        /\ files[path][1].hi = Len(files[path][1].text)

(***************************************************************************)
(* Claims about the canonical encoding, checked under Spec.                *)
(***************************************************************************)
\* the pointer generate returns for the arguments of the call of this run with
\* another evidence list in place of the one passed
GenerateWith(evidence_found) ==
    generate(signer, genInput.now, genInput.env, genInput.status, genInput.reason,
             evidence_found, genInput.critical_omissions, genInput.repository,
             genInput.commit_sha, genInput.branch).value

\* C11: with timestamp, repository, commit, status, reason and omissions fixed,
\* the canonical encoding and observation_hash depend only on the set of
\* artifact identifiers, not on the order (or the number of times) they were
\* found or passed in: every list with the same set of elements gives the same
\* bytes and the same hash, and the evidence stored in the pointer is that set
\* as a sorted sequence
C11_EncodingOfTheSet ==
    (pc = "generated" /\ tampered = None)
    => /\ pointer.evidence_found
            = SetAsSortedSequence(Range(genInput.evidence_found))
       /\ \A other \in EvidenceLists :
             Range(other) = Range(genInput.evidence_found)
             => /\ GenerateWith(other).observation_hash = pointer.observation_hash
                /\ json_dumps(RebuildObservation(GenerateWith(other))) = SignedBytes

(***************************************************************************)
(* Claims about the gap-index scan, checked under CheckSpec.               *)
(***************************************************************************)
\* the lines of the gap index of the tree (none when the file is absent)
GapLines == IF fs.gap_index.exists THEN fs.gap_index.lines ELSE <<>>

\* the parseable entries whose severity is >= 0.8, an absent severity being 0
CriticalEntries ==
    {k \in 1..Len(GapLines) :
        /\ GapLines[k].json \in {"object", "object_no_severity"}
        /\ (IF GapLines[k].json = "object" THEN GapLines[k].severity ELSE 0)
              >= SeverityThreshold}

\* C12: for every sequence of gap-index lines the scan completes, a line that
\* cannot be parsed is skipped without aborting it, and the resulting
\* critical-omission count is the number of parseable entries whose severity
\* is >= 0.8 (a non-negative integer)
C12_GapScanCompletes ==
    run.pc # "start"
    => /\ run.pc # "raised"
       /\ run.exc = None
       /\ run.critical_omissions \in Nat
       /\ run.critical_omissions = Cardinality(CriticalEntries)

(***************************************************************************)
(* Claims about the exit of a run, checked under RunSpec.                  *)
(***************************************************************************)
\* C13: a run in which every step succeeds exits with a non-zero status if and
\* only if the verdict is RED and the configured mode is "fail", and with 0 in
\* every other case; when it exits the verdict record of this run has been
\* written (verdict_latest.json and the last line of verdict_index.jsonl) and,
\* where the pointer is enabled, the pointer of this verdict has been saved
C13_ExitSemantics ==
    /\ run.pc # "exited" => run.exit_code = 0
    /\ (run.pc = "exited" /\ run.exc = None)
       => /\ run.exit_code \in {0, 1}
          /\ (run.exit_code # 0) <=> (run.status = "RED" /\ MODE(config) = "fail")
          /\ verdictStore.latest.schema = "crovia.verdict.v1"
          /\ verdictStore.latest.status = run.status
          /\ verdictStore.latest.reason = run.reason
          /\ verdictStore.latest.critical_omissions = run.critical_omissions
          /\ Range(verdictStore.latest.primary_found) = Range(run.found_primary)
          /\ verdictStore.index # <<>>
          /\ verdictStore.index[Len(verdictStore.index)] = verdictStore.latest
          /\ (script = "check_v2.py" /\ GENERATE_POINTER(config))
             => /\ run.pointer_path \in DOMAIN files
                /\ files[run.pointer_path] = Complete(to_json(run.pointer))
                /\ run.pointer.status = run.status
                /\ run.pointer.reason = run.reason

\* a run of check_v2.py in fail mode (given in upper case) over a tree with a
\* critical omission wrote its pointer and its verdict and exited with 1
C13_Witness ==
    /\ run.pc = "exited"
    /\ script = "check_v2.py"
    /\ config.CROVIA_MODE = "FAIL"
    /\ run.reason = "evidence_compromised"
    /\ run.exit_code = 1
    /\ run.pointer_path \in DOMAIN files
    /\ verdictStore.latest.status = "RED"

=============================================================================
